---- MODULE Spec2Model ----
(***************************************************************************)
(* HippoDB: the persistence and indexing layer (src/hippodb/hippo.py) and  *)
(* the listing handlers of the HTTP layer (src/hippodb/api.py).            *)
(*                                                                         *)
(* Strings that the code inspects character by character (database paths, *)
(* database ids used as dictionary keys beside paths, document contents)  *)
(* are sequences of one-character strings.  A uuid4 value is one opaque   *)
(* token: application ids, token ids and document ids are TLA+ strings,   *)
(* database ids are one-element sequences so that they can be compared    *)
(* with paths, as delete_database does.                                   *)
(***************************************************************************)
EXTENDS Naturals, Sequences, FiniteSets, TLC

\* ------------------------------------------------------------- bounds
\* How many uuid4 values of each kind one run may draw.
MaxApplications == 2
MaxDatabases == 4
MaxDocuments == 2
MaxTokens == 1
\* How many applications a run of create_application/delete_application alone creates.
MaxCreated == 3

\* ------------------------------------------------------------- uuid4
\* The n-th fresh value drawn at each call site of uuid4().
AppUuid(n) == <<"a1", "a2", "a3", "a4", "a5", "a6", "a7", "a8">>[n]
TokenUuid(n) == <<"t1", "t2", "t3", "t4", "t5", "t6", "t7", "t8">>[n]
DbUuid(n) ==
    << <<"d1">>, <<"d2">>, <<"d3">>, <<"d4">>, <<"d5">>, <<"d6">>, <<"d7">>, <<"d8">> >>[n]
DocUuid(n) == <<"f1", "f2", "f3", "f4", "f5", "f6", "f7", "f8">>[n]

\* ------------------------------------------------------------- strings
EmptyMap == <<>>

Range(f) == {f[k] : k \in DOMAIN f}

\* dict without key k
Without(f, k) == [x \in DOMAIN f \ {k} |-> f[x]]

\* dict with f[k] = v set
With(f, k, v) == [x \in DOMAIN f \cup {k} |-> IF x = k THEN v ELSE f[x]]

\* str.startswith
startswith(s, p) == Len(p) <= Len(s) /\ SubSeq(s, 1, Len(p)) = p

\* s[n:]
slice_from(s, n) == SubSeq(s, n + 1, Len(s))

\* str.count of a one-character string
count(s, c) == Cardinality({i \in 1..Len(s) : s[i] = c})

\* urllib.parse.unquote, for the one escape the inputs below use: %2F is "/".
RECURSIVE unquote(_)
unquote(s) ==
    IF s = <<>> THEN <<>>
    ELSE IF Len(s) >= 3 /\ SubSeq(s, 1, 3) = <<"%", "2", "F">>
         THEN <<"/">> \o unquote(slice_from(s, 3))
         ELSE <<s[1]>> \o unquote(slice_from(s, 1))

\* os.linesep of the platform the store runs on (POSIX).
os_linesep == <<"\n">>

\* Path.write_text: text mode with newline=None turns every "\n" into os.linesep.
RECURSIVE write_text(_)
write_text(s) ==
    IF s = <<>> THEN <<>>
    ELSE (IF s[1] = "\n" THEN os_linesep ELSE <<s[1]>>) \o write_text(slice_from(s, 1))

\* Path.read_text: text mode with universal newlines turns "\r\n" and "\r" into "\n".
RECURSIVE read_text(_)
read_text(b) ==
    IF b = <<>> THEN <<>>
    ELSE IF Len(b) >= 2 /\ b[1] = "\r" /\ b[2] = "\n"
         THEN <<"\n">> \o read_text(slice_from(b, 2))
         ELSE IF b[1] = "\r"
              THEN <<"\n">> \o read_text(slice_from(b, 1))
              ELSE <<b[1]>> \o read_text(slice_from(b, 1))

\* ------------------------------------------------------------- entities
Database(id, application, path) == [id |-> id, application |-> application, path |-> path]
Application(id, name) == [id |-> id, name |-> name]
Token(id, application, writeable) == [id |-> id, application |-> application, writeable |-> writeable]

\* A side-car file: present with its parsed JSON, or absent.
File(data) == [exists |-> TRUE, data |-> data]
NoFile == [exists |-> FALSE, data |-> EmptyMap]

\* The outcome of a call: the store it leaves, the exception raised ("none"
\* when it returns) and the value returned.
Return(h, val) == [h |-> h, exc |-> "none", val |-> val]
Raise(h, exc) == [h |-> h, exc |-> exc, val |-> <<>>]
None == <<>>

\* Sequencing: the rest of a method runs only if nothing was raised so far.
Then(r, rest(_)) == IF r.exc = "none" THEN rest(r.h) ELSE r

\* ------------------------------------------------------------- the store
\* HippoDB.__init__ before load(): empty index; `disk` is what the data
\* directory holds.  Index: applications, tokens, databases, documents.
\* Disk: applications_json is <root>/applications.json; db_maps[a] is
\* <root>/db/a/map.json, defined exactly for the application directories that
\* exist; document_maps[<<a, d>>] is <root>/db/a/d/map.json, defined exactly
\* for the database directories that exist; files[<<a, d, f>>] is the content
\* file <root>/db/a/d/f.  drawn counts the uuid4 values drawn so far.
\* read_only: the file system refuses every change (open for writing, mkdir,
\* unlink and rmtree raise OSError and leave the files as they are).
EmptyDisk ==
    [applications_json |-> NoFile, db_maps |-> EmptyMap,
     document_maps |-> EmptyMap, files |-> EmptyMap,
     drawn |-> [app |-> 0, token |-> 0, db |-> 0, doc |-> 0],
     read_only |-> FALSE]

HippoDB(disk) ==
    [applications |-> EmptyMap, tokens |-> EmptyMap,
     databases |-> EmptyMap, documents |-> EmptyMap,
     applications_json |-> disk.applications_json, db_maps |-> disk.db_maps,
     document_maps |-> disk.document_maps, files |-> disk.files,
     drawn |-> disk.drawn, read_only |-> disk.read_only]

\* app_dir.mkdir(parents=True) when the directory is missing
mkdir_app(h, application) ==
    IF application \in DOMAIN h.db_maps THEN h
    ELSE [h EXCEPT !.db_maps = With(@, application, NoFile)]

\* db_dir.mkdir(parents=True) when the directory is missing
mkdir_db(h, application, database) ==
    LET h1 == mkdir_app(h, application)
    IN  IF <<application, database>> \in DOMAIN h1.document_maps THEN h1
        ELSE [h1 EXCEPT !.document_maps = With(@, <<application, database>>, NoFile)]

\* shutil.rmtree(<root>/db/application/database), the directory existing
rmtree_db(h, application, database) ==
    [h EXCEPT
       !.document_maps = Without(@, <<application, database>>),
       !.files = [k \in {x \in DOMAIN @ : ~(x[1] = application /\ x[2] = database)} |-> @[k]]]

\* shutil.rmtree(<root>/db/application), the directory existing
rmtree_app(h, application) ==
    [h EXCEPT
       !.db_maps = Without(@, application),
       !.document_maps = [k \in {x \in DOMAIN @ : x[1] # application} |-> @[k]],
       !.files = [k \in {x \in DOMAIN @ : x[1] # application} |-> @[k]]]

\* Mutant: the applications file is not rewritten.
save_applications_file_skipped(h) == Return(h, None)

save_applications_file(h) ==
    IF h.read_only THEN Raise(h, "OSError") ELSE
    Return([h EXCEPT !.applications_json =
                File([applications |-> Range(h.applications),
                      tokens |-> Range(h.tokens)])],
           None)

save_db_map(h, application) ==
    IF h.read_only /\ application \notin DOMAIN h.db_maps THEN Raise(h, "OSError") ELSE
    LET h1 == mkdir_app(h, application)
    IN  IF application \notin DOMAIN h1.databases THEN Raise(h1, "KeyError")
        ELSE IF h1.read_only THEN Raise(h1, "OSError")
        ELSE LET dbs == Range(h1.databases[application])
                 dumped == [id \in {db.id : db \in dbs} |->
                               CHOOSE db \in dbs : db.id = id]
             IN  Return([h1 EXCEPT !.db_maps[application] = File(dumped)], None)

save_document_map(h, application, database) ==
    IF h.read_only /\ <<application, database>> \notin DOMAIN h.document_maps
    THEN Raise(h, "OSError") ELSE
    LET h1 == mkdir_db(h, application, database)
    IN  IF application \notin DOMAIN h1.documents THEN Raise(h1, "KeyError")
        ELSE IF database \notin DOMAIN h1.documents[application] THEN Raise(h1, "KeyError")
        ELSE IF h1.read_only THEN Raise(h1, "OSError")
        ELSE Return([h1 EXCEPT !.document_maps[<<application, database>>] =
                        File(h1.documents[application][database])], None)

\* ------------------------------------------------------------- HippoDB methods
\* str(uuid4()) at a call site of kind k: the value, and the store after the draw.
uuid4(h, k) ==
    LET n == h.drawn[k] + 1
    IN  CASE k = "app" -> AppUuid(n)
          [] k = "token" -> TokenUuid(n)
          [] k = "db" -> DbUuid(n)
          [] k = "doc" -> DocUuid(n)

draw(h, k) == [h EXCEPT !.drawn[k] = @ + 1]

create_token(h, application, writeable) ==
    LET token_id == uuid4(h, "token")
        h1 == [draw(h, "token") EXCEPT
                 !.tokens = With(@, token_id, Token(token_id, application, writeable))]
        r == save_applications_file(h1)
    IN  Then(r, LAMBDA s : Return(s, s.tokens[token_id]))

create_database(h, application, path) ==
    LET db_id == uuid4(h, "db")
        h0 == draw(h, "db")
    IN  IF application \notin DOMAIN h0.databases THEN Raise(h0, "KeyError")
        ELSE
        LET h1 == [h0 EXCEPT !.databases[application] =
                       With(@, path, Database(db_id, application, path))]
        IN  IF application \notin DOMAIN h1.documents THEN Raise(h1, "KeyError")
            ELSE
            LET h2 == [h1 EXCEPT !.documents[application] = With(@, db_id, EmptyMap)]
                r3 == save_db_map(h2, application)
                r4 == Then(r3, LAMBDA s : save_document_map(s, application, db_id))
            IN  Then(r4, LAMBDA s : Return(s, s.databases[application][path]))

\* Mutant: the application is registered and persisted without its root database.
create_application_without_root(h, name) ==
    LET app_id == uuid4(h, "app")
        h1 == [draw(h, "app") EXCEPT
                 !.applications = With(@, app_id, Application(app_id, name)),
                 !.databases = With(@, app_id, EmptyMap),
                 !.documents = With(@, app_id, EmptyMap)]
        r2 == save_applications_file(h1)
    IN  Then(r2, LAMBDA s : Return(s, s.applications[app_id]))

create_application(h, name) ==
    LET app_id == uuid4(h, "app")
        h1 == [draw(h, "app") EXCEPT
                 !.applications = With(@, app_id, Application(app_id, name)),
                 !.databases = With(@, app_id, EmptyMap),
                 !.documents = With(@, app_id, EmptyMap)]
        r2 == save_applications_file(h1)
        r3 == Then(r2, LAMBDA s : create_database(s, app_id, <<"/">>))
    IN  Then(r3, LAMBDA s : Return(s, s.applications[app_id]))

\* self.documents[application][database] can be evaluated
has_scope(h, application, database) ==
    /\ application \in DOMAIN h.documents
    /\ database \in DOMAIN h.documents[application]

\* (<root>/db/application/database/document_id).write_text(contents)
write_document_file(h, application, database, document_id, contents) ==
    IF <<application, database>> \notin DOMAIN h.document_maps
    THEN Raise(h, "FileNotFoundError")
    ELSE IF h.read_only THEN Raise(h, "OSError")
    ELSE Return([h EXCEPT !.files =
                    With(@, <<application, database, document_id>>, write_text(contents))],
                None)

\* Mutant: a new document id is drawn and registered on every call.
update_document_fresh_id(h, application, database, document_name, contents) ==
    IF ~has_scope(h, application, database) THEN Raise(h, "KeyError")
    ELSE LET document_id == uuid4(h, "doc")
             h1 == [draw(h, "doc") EXCEPT
                      !.documents[application][database] = With(@, document_name, document_id)]
             r2 == save_document_map(h1, application, database)
         IN  Then(r2, LAMBDA s :
                 write_document_file(s, application, database, document_id, contents))

update_document(h, application, database, document_name, contents) ==
    IF ~has_scope(h, application, database) THEN Raise(h, "KeyError")
    ELSE IF document_name \notin DOMAIN h.documents[application][database]
    THEN LET document_id == uuid4(h, "doc")
             h1 == [draw(h, "doc") EXCEPT
                      !.documents[application][database] = With(@, document_name, document_id)]
             r2 == save_document_map(h1, application, database)
         IN  Then(r2, LAMBDA s :
                 write_document_file(s, application, database, document_id, contents))
    ELSE LET document_id == h.documents[application][database][document_name]
         IN  write_document_file(h, application, database, document_id, contents)

read_document(h, application, database, document_name) ==
    IF ~has_scope(h, application, database) THEN Raise(h, "KeyError")
    ELSE IF document_name \notin DOMAIN h.documents[application][database]
    THEN Raise(h, "KeyError")
    ELSE LET document_id == h.documents[application][database][document_name]
             file == <<application, database, document_id>>
         IN  IF file \notin DOMAIN h.files THEN Raise(h, "FileNotFoundError")
             ELSE Return(h, read_text(h.files[file]))

delete_document(h, application, database, document_name) ==
    IF ~has_scope(h, application, database) THEN Raise(h, "KeyError")
    ELSE IF document_name \notin DOMAIN h.documents[application][database]
    THEN Raise(h, "KeyError")
    ELSE LET document_id == h.documents[application][database][document_name]
             file == <<application, database, document_id>>
         IN  IF file \notin DOMAIN h.files THEN Raise(h, "FileNotFoundError")
             ELSE IF h.read_only THEN Raise(h, "OSError")
             ELSE LET contents == read_text(h.files[file])
                      h1 == [h EXCEPT !.files = Without(@, file)]
                      r2 == save_document_map(h1, application, database)
                  IN  Then(r2, LAMBDA s : Return(s, contents))

delete_database(h, application, database) ==
    IF application \notin DOMAIN h.databases THEN Raise(h, "KeyError")
    ELSE IF database \notin DOMAIN h.databases[application] THEN Raise(h, "KeyError")
    ELSE
    LET h1 == [h EXCEPT !.databases[application] = Without(@, database)]
    IN  IF ~has_scope(h1, application, database) THEN Raise(h1, "KeyError")
        ELSE
        LET h2 == [h1 EXCEPT !.documents[application] = Without(@, database)]
        IN  IF <<application, database>> \notin DOMAIN h2.document_maps
            THEN Raise(h2, "FileNotFoundError")
            ELSE IF h2.read_only THEN Raise(h2, "OSError")
            ELSE save_db_map(rmtree_db(h2, application, database), application)

\* Mutant: the tokens of the application are left in the tokens map.
delete_application_keeping_tokens(h, application) ==
    IF application \notin DOMAIN h.applications THEN Raise(h, "KeyError")
    ELSE save_applications_file(
             rmtree_app([h EXCEPT !.databases = Without(@, application),
                                  !.documents = Without(@, application),
                                  !.applications = Without(@, application)],
                        application))

\* Mutant: the tokens of every application are removed.
delete_application_dropping_all_tokens(h, application) ==
    IF application \notin DOMAIN h.applications THEN Raise(h, "KeyError")
    ELSE save_applications_file(
             rmtree_app([h EXCEPT !.databases = Without(@, application),
                                  !.documents = Without(@, application),
                                  !.applications = Without(@, application),
                                  !.tokens = EmptyMap],
                        application))

delete_application(h, application) ==
    IF application \notin DOMAIN h.databases THEN Raise(h, "KeyError")
    ELSE
    LET h1 == [h EXCEPT !.databases = Without(@, application)]
    IN  IF application \notin DOMAIN h1.documents THEN Raise(h1, "KeyError")
        ELSE
        LET h2 == [h1 EXCEPT !.documents = Without(@, application)]
        IN  IF application \notin DOMAIN h2.applications THEN Raise(h2, "KeyError")
            ELSE
            LET h3 == [h2 EXCEPT !.applications = Without(@, application)]
                doomed == {token_id \in DOMAIN h3.tokens :
                              h3.tokens[token_id].application = application}
                h4 == [h3 EXCEPT !.tokens = [t \in DOMAIN @ \ doomed |-> @[t]]]
            IN  IF application \notin DOMAIN h4.db_maps
                THEN Raise(h4, "FileNotFoundError")
                ELSE IF h4.read_only THEN Raise(h4, "OSError")
                ELSE save_applications_file(rmtree_app(h4, application))

delete_token(h, token) ==
    IF token \notin DOMAIN h.tokens THEN Raise(h, "KeyError")
    ELSE save_applications_file([h EXCEPT !.tokens = Without(@, token)])

\* ------------------------------------------------------------- load
\* load_field: dict of (value.id, value) over the list read from the file
load_field(values) == [id \in {v.id : v \in values} |-> CHOOSE v \in values : v.id = id]

load_applications_file(h) ==
    IF ~h.applications_json.exists THEN save_applications_file(h).h
    ELSE [h EXCEPT !.applications = load_field(h.applications_json.data.applications),
                   !.tokens = load_field(h.applications_json.data.tokens)]

\* dict.setdefault(k, {})
setdefault(f, k) == IF k \in DOMAIN f THEN f ELSE With(f, k, EmptyMap)

load_db_map(h, application) ==
    LET h1 == mkdir_app(h, application)
        h2 == [h1 EXCEPT !.databases = setdefault(@, application),
                         !.documents = setdefault(@, application)]
    IN  IF ~h2.db_maps[application].exists THEN save_db_map(h2, application).h
        ELSE LET dbs == Range(h2.db_maps[application].data)
                 old == h2.databases[application]
             IN  [h2 EXCEPT !.databases[application] =
                     [p \in DOMAIN old \cup {db.path : db \in dbs} |->
                         IF \E db \in dbs : db.path = p
                         THEN CHOOSE db \in dbs : db.path = p
                         ELSE old[p]]]

load_document_map(h, application, database) ==
    LET h1 == mkdir_db(h, application, database)
        h2 == [h1 EXCEPT !.documents = setdefault(@, application)]
    IN  IF ~h2.document_maps[<<application, database>>].exists
        THEN save_document_map(
                 [h2 EXCEPT !.documents[application] = With(@, database, EmptyMap)],
                 application, database).h
        ELSE [h2 EXCEPT !.documents[application] =
                 With(@, database, h2.document_maps[<<application, database>>].data)]

\* for database in self.databases[application].values(): load_document_map(...)
RECURSIVE load_document_maps(_, _, _)
load_document_maps(h, application, ids) ==
    IF ids = {} THEN h
    ELSE LET id == CHOOSE x \in ids : TRUE
         IN  load_document_maps(load_document_map(h, application, id),
                                application, ids \ {id})

\* for application in self.applications: load_db_map(...); ...
RECURSIVE load_applications(_, _)
load_applications(h, apps) ==
    IF apps = {} THEN h
    ELSE LET application == CHOOSE x \in apps : TRUE
             h1 == load_db_map(h, application)
             ids == {db.id : db \in Range(h1.databases[application])}
         IN  load_applications(load_document_maps(h1, application, ids),
                               apps \ {application})

load(h) ==
    LET h1 == load_applications_file(h)
    IN  load_applications(h1, DOMAIN h1.applications)

\* ------------------------------------------------------------- HTTP handlers (api.py)
process_db_name(name) ==
    LET n == unquote(name)
    IN  IF ~startswith(n, <<"/">>) THEN <<"/">> \o n ELSE n

\* application_dependency: the credentials name an application and one of its tokens
application_dependency(h, username, password) ==
    /\ username \in DOMAIN h.applications
    /\ password \in DOMAIN h.tokens
    /\ h.tokens[password].application = username

\* Some token authenticates a request for app_id.
authenticated(h, app_id) ==
    \E password \in DOMAIN h.tokens : application_dependency(h, app_id, password)

\* Mutant: the non-recursive listing also keeps the paths one level deeper.
list_databases_one_deeper(h, app_id, db_name, recursive) ==
    IF app_id \notin DOMAIN h.databases THEN Raise(h, "KeyError") ELSE
    LET prefix == process_db_name(db_name)
        dbs == {db.path : db \in {d \in Range(h.databases[app_id]) :
                                      startswith(d.path, prefix)}}
    IN  IF ~recursive
        THEN Return(h, {path \in dbs : count(slice_from(path, Len(prefix)), "/") <= 1})
        ELSE Return(h, dbs)

\* GET /dbs/{db_name}: the paths of the DatabaseInfo values returned
list_databases(h, app_id, db_name, recursive) ==
    IF app_id \notin DOMAIN h.databases THEN Raise(h, "KeyError") ELSE
    LET prefix == process_db_name(db_name)
        dbs == {db.path : db \in {d \in Range(h.databases[app_id]) :
                                      startswith(d.path, prefix)}}
        query_length == Len(prefix)
    IN  IF ~recursive
        THEN Return(h, {path \in dbs : count(slice_from(path, query_length), "/") = 0})
        ELSE Return(h, dbs)

\* HIPPODB.databases[app_view.app_id][db_name].id
resolve_db(h, app_id, db_name) ==
    IF app_id \notin DOMAIN h.databases THEN Raise(h, "KeyError")
    ELSE IF db_name \notin DOMAIN h.databases[app_id] THEN Raise(h, "KeyError")
    ELSE Return(h, h.databases[app_id][db_name].id)

\* GET /{db_name}
list_documents(h, app_id, db_name) ==
    LET r == resolve_db(h, app_id, process_db_name(db_name))
    IN  IF r.exc # "none" THEN r
        ELSE IF ~has_scope(h, app_id, r.val) THEN Raise(h, "KeyError")
        ELSE Return(h, DOMAIN h.documents[app_id][r.val])

\* GET /{db_name}/{document_name}/exists
document_exists(h, app_id, db_name, document_name) ==
    LET r == resolve_db(h, app_id, process_db_name(db_name))
    IN  IF r.exc # "none" THEN r
        ELSE IF ~has_scope(h, app_id, r.val) THEN Raise(h, "KeyError")
        ELSE Return(h, document_name \in DOMAIN h.documents[app_id][r.val])

\* DELETE /{db_name}
api_delete_database(h, app_id, db_name) ==
    LET r == resolve_db(h, app_id, process_db_name(db_name))
    IN  IF r.exc # "none" THEN r
        ELSE delete_database(h, app_id, r.val)

\* ------------------------------------------------------------- state
VARIABLES
    applications,       \* HippoDB.applications: id -> Application
    tokens,             \* HippoDB.tokens: id -> Token
    databases,          \* HippoDB.databases: application id -> (path -> Database)
    documents,          \* HippoDB.documents: application id -> (database id -> (name -> id))
    applications_json,  \* <root>/applications.json
    db_maps,            \* <root>/db/<application>/map.json per application directory
    document_maps,      \* <root>/db/<application>/<database>/map.json per database directory
    files,              \* <root>/db/<application>/<database>/<document id>: the bytes
    drawn,              \* how many uuid4 values of each kind were drawn
    read_only,          \* the file system under <root> refuses changes
    last,               \* the last completed call: [op, args, exc, val]
    pc,                 \* per request thread: the line of update_document it is at
    frame               \* per request thread: its arguments and locals

store_vars == <<applications, tokens, databases, documents, applications_json,
                db_maps, document_maps, files, drawn, read_only>>
vars == <<applications, tokens, databases, documents, applications_json,
          db_maps, document_maps, files, drawn, read_only, last, pc, frame>>

\* The store as the methods above take it.
Self ==
    [applications |-> applications, tokens |-> tokens, databases |-> databases,
     documents |-> documents, applications_json |-> applications_json,
     db_maps |-> db_maps, document_maps |-> document_maps, files |-> files,
     drawn |-> drawn, read_only |-> read_only]

\* What a start on the present data directory would load.
Disk ==
    [applications_json |-> applications_json, db_maps |-> db_maps,
     document_maps |-> document_maps, files |-> files, drawn |-> drawn,
     read_only |-> read_only]

SetStore(h) ==
    /\ applications' = h.applications
    /\ tokens' = h.tokens
    /\ databases' = h.databases
    /\ documents' = h.documents
    /\ applications_json' = h.applications_json
    /\ db_maps' = h.db_maps
    /\ document_maps' = h.document_maps
    /\ files' = h.files
    /\ drawn' = h.drawn
    /\ read_only' = h.read_only

\* A whole call, run alone: the store it leaves and its outcome.
Call(op, args, r) ==
    /\ SetStore(r.h)
    /\ last' = [op |-> op, args |-> args, exc |-> r.exc, val |-> r.val]
    /\ UNCHANGED <<pc, frame>>

\* ------------------------------------------------------------- inputs
Threads == {1, 2}
Names == {"n"}
Ghost == "ghost"
\* The ids drawn so far (of live and of deleted entities), and one never drawn.
ApplicationIds == {AppUuid(i) : i \in 1..drawn.app} \cup {Ghost}
TokenIds == {TokenUuid(i) : i \in 1..drawn.token} \cup {Ghost}
DatabaseIds == {DbUuid(i) : i \in 1..drawn.db}
\* A caller may name a database by any string: a path, or the text of an id.
Paths == {<<"/">>, <<"/", "a">>, DbUuid(1)}
TreePaths == {<<"/">>, <<"/", "a">>, <<"/", "a", "/", "b">>,
              <<"/", "a", "/", "b", "/", "c">>, <<"a">>, DbUuid(1)}
\* db_name as it arrives in the URL of GET /dbs/{db_name}
Prefixes == {<<"/">>, <<"/", "a">>, <<"/", "a", "/">>, <<"a">>,
             <<"%", "2", "F", "a">>, <<"/", "a", "/", "b">>}
DocumentNames == {"x", "y"}
Contents == {<<"p">>, <<"q">>, <<"p", "\r", "q">>}

\* The step draws no more uuid4 values than the bounds allow.
Within(apps, tks, dbs, docs) ==
    /\ drawn'.app <= apps
    /\ drawn'.token <= tks
    /\ drawn'.db <= dbs
    /\ drawn'.doc <= docs

NoCall == [op |-> "none", args |-> <<>>, exc |-> "none", val |-> None]

Init ==
    /\ LET h == load(HippoDB(EmptyDisk))
       IN  /\ applications = h.applications
           /\ tokens = h.tokens
           /\ databases = h.databases
           /\ documents = h.documents
           /\ applications_json = h.applications_json
           /\ db_maps = h.db_maps
           /\ document_maps = h.document_maps
           /\ files = h.files
           /\ drawn = h.drawn
           /\ read_only = h.read_only
    /\ last = NoCall
    /\ pc = [t \in Threads |-> "idle"]
    /\ frame = [t \in Threads |-> <<>>]

\* ------------------------------------------------------------- calls run alone
CreateToken(application, writeable) ==
    Call("create_token", <<application, writeable>>,
         create_token(Self, application, writeable))

CreateApplication(name) ==
    Call("create_application", <<name>>, create_application(Self, name))

CreateDatabase(application, path) ==
    Call("create_database", <<application, path>>,
         create_database(Self, application, path))

UpdateDocument(application, database, document_name, contents) ==
    Call("update_document", <<application, database, document_name, contents>>,
         update_document(Self, application, database, document_name, contents))

ReadDocument(application, database, document_name) ==
    Call("read_document", <<application, database, document_name>>,
         read_document(Self, application, database, document_name))

DeleteDocument(application, database, document_name) ==
    Call("delete_document", <<application, database, document_name>>,
         delete_document(Self, application, database, document_name))

DeleteDatabase(application, database) ==
    Call("delete_database", <<application, database>>,
         delete_database(Self, application, database))

DeleteApplication(application) ==
    Call("delete_application", <<application>>, delete_application(Self, application))

DeleteToken(token) ==
    Call("delete_token", <<token>>, delete_token(Self, token))

\* The process is started again on the data directory: HippoDB() and its load().
Restart ==
    Call("load", <<>>, Return(load(HippoDB(Disk)), None))

ListDatabases(app_id, db_name, recursive) ==
    /\ authenticated(Self, app_id)
    /\ Call("list_databases", <<app_id, db_name, recursive>>,
            list_databases(Self, app_id, db_name, recursive))

ListDocuments(app_id, db_name) ==
    /\ authenticated(Self, app_id)
    /\ Call("list_documents", <<app_id, db_name>>, list_documents(Self, app_id, db_name))

DocumentExists(app_id, db_name, document_name) ==
    /\ authenticated(Self, app_id)
    /\ Call("document_exists", <<app_id, db_name, document_name>>,
            document_exists(Self, app_id, db_name, document_name))

ApiDeleteDatabase(app_id, db_name) ==
    /\ authenticated(Self, app_id)
    /\ Call("api_delete_database", <<app_id, db_name>>,
            api_delete_database(Self, app_id, db_name))

Bounded == Within(MaxApplications, MaxTokens, MaxDatabases, MaxDocuments)

\* Every call of the facade and of the handlers above, run one at a time, on
\* one application with at most two databases and one document.
Small == Within(1, MaxTokens, 2, 1)

Next ==
    \/ \E a \in ApplicationIds, w \in BOOLEAN : CreateToken(a, w) /\ Small
    \/ \E n \in Names : CreateApplication(n) /\ Small
    \/ \E a \in ApplicationIds, p \in Paths : CreateDatabase(a, p) /\ Small
    \/ \E a \in ApplicationIds, d \in DatabaseIds, n \in DocumentNames, c \in Contents :
          UpdateDocument(a, d, n, c) /\ Small
    \/ \E a \in ApplicationIds, d \in DatabaseIds, n \in DocumentNames : ReadDocument(a, d, n)
    \/ \E a \in ApplicationIds, d \in DatabaseIds, n \in DocumentNames : DeleteDocument(a, d, n)
    \/ \E a \in ApplicationIds, d \in DatabaseIds \cup Paths : DeleteDatabase(a, d)
    \/ \E a \in ApplicationIds : DeleteApplication(a)
    \/ \E t \in TokenIds : DeleteToken(t)
    \/ Restart
    \/ \E a \in ApplicationIds, p \in Prefixes, r \in BOOLEAN : ListDatabases(a, p, r)
    \/ \E a \in ApplicationIds, p \in Paths : ListDocuments(a, p)
    \/ \E a \in ApplicationIds, p \in Paths, n \in DocumentNames : DocumentExists(a, p, n)
    \/ \E a \in ApplicationIds, p \in Paths : ApiDeleteDatabase(a, p)

Spec == Init /\ [][Next]_vars

\* The call of this step returned (raised nothing).
Returned == last'.exc = "none"

\* The mutating calls of the facade, one at a time, each returning successfully.
NextOk ==
    \/ \E a \in ApplicationIds : CreateToken(a, TRUE) /\ Bounded /\ Returned
    \/ \E n \in Names : CreateApplication(n) /\ Bounded /\ Returned
    \/ \E a \in ApplicationIds, p \in {<<"/">>, DbUuid(1)} :
          CreateDatabase(a, p) /\ Bounded /\ Returned
    \/ \E a \in ApplicationIds, d \in DatabaseIds :
          UpdateDocument(a, d, "x", <<"p">>) /\ Bounded /\ Returned
    \/ \E a \in ApplicationIds, d \in DatabaseIds : DeleteDocument(a, d, "x") /\ Returned
    \/ \E a \in ApplicationIds, d \in DatabaseIds : DeleteDatabase(a, d) /\ Returned
    \/ \E a \in ApplicationIds : DeleteApplication(a) /\ Returned
    \/ \E t \in TokenIds : DeleteToken(t) /\ Returned

SpecOk == Init /\ [][NextOk]_vars

\* Only create_application and delete_application (of any id, known or not).
NextApps ==
    \/ \E n \in {"n", "m"} : CreateApplication(n) /\ Within(MaxCreated, 0, MaxCreated, 0)
    \/ \E a \in ApplicationIds : DeleteApplication(a)

SpecApps == Init /\ [][NextApps]_vars

\* One application and the documents of its root database.
NextDocs ==
    \/ \E n \in Names : CreateApplication(n) /\ Within(1, 0, 1, MaxDocuments)
    \/ \E a \in ApplicationIds, d \in DatabaseIds, n \in DocumentNames, c \in Contents :
          UpdateDocument(a, d, n, c) /\ Within(1, 0, 1, MaxDocuments)
    \/ \E a \in ApplicationIds, d \in DatabaseIds, n \in DocumentNames : ReadDocument(a, d, n)
    \/ \E a \in ApplicationIds, d \in DatabaseIds, n \in DocumentNames : DeleteDocument(a, d, n)
    \/ Restart

SpecDocs == Init /\ [][NextDocs]_vars

\* One application, one token for its requests, and its tree of databases.
NextDbs ==
    \/ \E n \in Names : CreateApplication(n) /\ Within(1, 1, MaxDatabases, 0)
    \/ \E a \in ApplicationIds \ {Ghost} : CreateToken(a, TRUE) /\ Within(1, 1, MaxDatabases, 0)
    \/ \E a \in ApplicationIds, p \in TreePaths \ {<<"a">>} :
          CreateDatabase(a, p) /\ Within(1, 1, MaxDatabases, 0)
    \/ \E a \in ApplicationIds, d \in DatabaseIds \cup {<<"/">>, <<"/", "a">>} :
          DeleteDatabase(a, d)
    \/ \E a \in ApplicationIds, p \in {<<"/">>, <<"/", "a">>, <<"a">>} :
          ApiDeleteDatabase(a, p)
    \/ \E a \in ApplicationIds, p \in {<<"/">>, <<"/", "a">>, <<"/", "a", "/">>},
          r \in BOOLEAN : ListDatabases(a, p, r)

SpecDbs == Init /\ [][NextDbs]_vars

\* Applications, each with a token, a second database and a document, and
\* their deletion.
InCascade == Within(MaxApplications, MaxTokens, MaxApplications + 1, 1)

NextCascade ==
    \/ \E n \in Names : CreateApplication(n) /\ InCascade
    \/ \E a \in ApplicationIds : CreateToken(a, TRUE) /\ InCascade
    \/ \E a \in ApplicationIds \ {Ghost} : CreateDatabase(a, <<"/", "a">>) /\ InCascade
    \/ \E a \in ApplicationIds \ {Ghost}, d \in DatabaseIds :
          UpdateDocument(a, d, "x", <<"p">>) /\ InCascade
    \/ \E a \in ApplicationIds : DeleteApplication(a)

SpecCascade == Init /\ [][NextCascade]_vars

\* One application, one token for its requests, databases and their listing.
NextList ==
    \/ \E n \in Names : CreateApplication(n) /\ Within(1, 1, MaxDatabases, 0)
    \/ \E a \in ApplicationIds \ {Ghost} : CreateToken(a, TRUE) /\ Within(1, 1, MaxDatabases, 0)
    \/ \E a \in ApplicationIds \ {Ghost}, p \in TreePaths \ {DbUuid(1)} :
          CreateDatabase(a, p) /\ Within(1, 1, MaxDatabases, 0)
    \/ \E a \in ApplicationIds, p \in Prefixes, r \in BOOLEAN : ListDatabases(a, p, r)

SpecList == Init /\ [][NextList]_vars

\* ------------------------------------------------------------- concurrent requests
\* PUT /{db_name}/{document_name} is a plain def: FastAPI runs each request on a
\* thread of its pool, and HippoDB holds no lock.  A thread can be switched
\* between any two statements of update_document, and inside save_document_map
\* between orjson.dumps(...) and write_bytes(...).
SetFrame(t, next, f) ==
    /\ pc' = [pc EXCEPT ![t] = next]
    /\ frame' = [frame EXCEPT ![t] = f]
    /\ UNCHANGED last

\* The request arrives: update_document(application, database, document_name, contents).
Request(t, application, database, document_name, contents) ==
    /\ pc[t] = "idle"
    /\ SetFrame(t, "L82", [op |-> "update_document",
                           application |-> application, database |-> database,
                           document_name |-> document_name, contents |-> contents,
                           document_id |-> "", dumped |-> EmptyMap])
    /\ UNCHANGED store_vars

\* line 82: if document_name not in self.documents[application][database]
L82(t) ==
    /\ pc[t] = "L82"
    /\ LET f == frame[t]
       IN  IF ~has_scope(Self, f.application, f.database)
           THEN SetFrame(t, "KeyError", f)
           ELSE IF f.document_name \notin DOMAIN documents[f.application][f.database]
           THEN SetFrame(t, "L83", f)
           ELSE SetFrame(t, "L88", f)
    /\ UNCHANGED store_vars

\* lines 83-84: document_id = str(uuid4()); self.documents[...][document_name] = document_id
L83(t) ==
    /\ pc[t] = "L83"
    /\ LET f == frame[t]
           document_id == uuid4(Self, "doc")
           h0 == draw(Self, "doc")
       IN  IF ~has_scope(h0, f.application, f.database)
           THEN SetStore(h0) /\ SetFrame(t, "KeyError", f)
           ELSE /\ SetStore([h0 EXCEPT !.documents[f.application][f.database] =
                                With(@, f.document_name, document_id)])
                /\ SetFrame(t, "L85", [f EXCEPT !.document_id = document_id])

\* line 85, save_document_map lines 278-284: mkdir, then orjson.dumps(self.documents[...])
L85(t) ==
    /\ pc[t] = "L85"
    /\ LET f == frame[t]
           h1 == mkdir_db(Self, f.application, f.database)
       IN  IF ~has_scope(h1, f.application, f.database)
           THEN SetStore(h1) /\ SetFrame(t, "KeyError", f)
           ELSE /\ SetStore(h1)
                /\ SetFrame(t, "L283",
                        [f EXCEPT !.dumped = h1.documents[f.application][f.database]])

\* save_document_map line 283: (db_dir / "map.json").write_bytes(<the dumped map>)
L283(t) ==
    /\ pc[t] = "L283"
    /\ LET f == frame[t]
       IN  IF <<f.application, f.database>> \notin DOMAIN document_maps
           THEN SetFrame(t, "FileNotFoundError", f) /\ UNCHANGED store_vars
           ELSE /\ SetStore([Self EXCEPT !.document_maps[<<f.application, f.database>>] =
                                File(f.dumped)])
                /\ SetFrame(t, "L90", f)

\* line 88: document_id = self.documents[application][database][document_name]
L88(t) ==
    /\ pc[t] = "L88"
    /\ LET f == frame[t]
       IN  IF \/ ~has_scope(Self, f.application, f.database)
              \/ f.document_name \notin DOMAIN documents[f.application][f.database]
           THEN SetFrame(t, "KeyError", f)
           ELSE SetFrame(t, "L90",
                    [f EXCEPT !.document_id =
                        documents[f.application][f.database][f.document_name]])
    /\ UNCHANGED store_vars

\* lines 90-92: (...).write_text(contents, encoding="utf-8"); the call returns
L90(t) ==
    /\ pc[t] = "L90"
    /\ LET f == frame[t]
           r == write_document_file(Self, f.application, f.database,
                                    f.document_id, f.contents)
       IN  /\ SetStore(r.h)
           /\ SetFrame(t, IF r.exc = "none" THEN "returned" ELSE r.exc, f)

\* An application is created, with its root database, before the requests arrive.
Setup(name) ==
    /\ drawn.app = 0
    /\ \A t \in Threads : pc[t] = "idle"
    /\ CreateApplication(name)

NextConc ==
    \/ \E n \in Names : Setup(n)
    \/ \E t \in Threads, a \in ApplicationIds \ {Ghost}, d \in DatabaseIds,
          n \in DocumentNames, c \in {<<"p">>, <<"q">>} : Request(t, a, d, n, c)
    \/ \E t \in Threads : L82(t)
    \/ \E t \in Threads : L83(t)
    \/ \E t \in Threads : L85(t)
    \/ \E t \in Threads : L283(t)
    \/ \E t \in Threads : L88(t)
    \/ \E t \in Threads : L90(t)

SpecConc == Init /\ [][NextConc]_vars

\* ------------------------------------------------------------- concurrent creation
\* POST /apps/new and POST /create_db are plain defs too.  A thread can be switched
\* between any two statements of create_application and create_database, and
\* inside save_db_map between orjson.dumps(...) and write_bytes(...).
NewPaths == {<<"/", "a">>, <<"/", "b">>}

\* The request arrives: create_application(name).
RequestCreateApplication(t, name) ==
    /\ pc[t] = "idle"
    /\ SetFrame(t, "A59", [op |-> "create_application", name |-> name,
                           application |-> "", path |-> <<"/">>,
                           db_id |-> <<>>, dumped |-> EmptyMap])
    /\ UNCHANGED store_vars

\* The request arrives: create_database(application, path).
RequestCreateDatabase(t, application, path) ==
    /\ pc[t] = "idle"
    /\ SetFrame(t, "D70", [op |-> "create_database", name |-> "",
                           application |-> application, path |-> path,
                           db_id |-> <<>>, dumped |-> EmptyMap])
    /\ UNCHANGED store_vars

\* lines 59-61: app_id = str(uuid4()); self.applications[app_id] = Application(...)
A59(t) ==
    /\ pc[t] = "A59"
    /\ LET f == frame[t]
           app_id == uuid4(Self, "app")
       IN  /\ SetStore([draw(Self, "app") EXCEPT
                          !.applications = With(@, app_id, Application(app_id, f.name))])
           /\ SetFrame(t, "A62", [f EXCEPT !.application = app_id])

\* line 62: self.databases[app_id] = {}
A62(t) ==
    /\ pc[t] = "A62"
    /\ SetStore([Self EXCEPT !.databases = With(@, frame[t].application, EmptyMap)])
    /\ SetFrame(t, "A63", frame[t])

\* line 63: self.documents[app_id] = {}
A63(t) ==
    /\ pc[t] = "A63"
    /\ SetStore([Self EXCEPT !.documents = With(@, frame[t].application, EmptyMap)])
    /\ SetFrame(t, "A64", frame[t])

\* line 64: self.save_applications_file(); line 65 then calls create_database(app_id, "/")
A64(t) ==
    /\ pc[t] = "A64"
    /\ LET r == save_applications_file(Self)
       IN  /\ SetStore(r.h)
           /\ SetFrame(t, IF r.exc = "none" THEN "D70" ELSE r.exc, frame[t])

\* lines 70-72: db_id = str(uuid4()); self.databases[application][path] = Database(...)
D70(t) ==
    /\ pc[t] = "D70"
    /\ LET f == frame[t]
           db_id == uuid4(Self, "db")
           h0 == draw(Self, "db")
       IN  IF f.application \notin DOMAIN h0.databases
           THEN SetStore(h0) /\ SetFrame(t, "KeyError", f)
           ELSE /\ SetStore([h0 EXCEPT !.databases[f.application] =
                                With(@, f.path, Database(db_id, f.application, f.path))])
                /\ SetFrame(t, "D73", [f EXCEPT !.db_id = db_id])

\* line 73: self.documents[application][db_id] = {}
D73(t) ==
    /\ pc[t] = "D73"
    /\ LET f == frame[t]
       IN  IF f.application \notin DOMAIN documents
           THEN SetFrame(t, "KeyError", f) /\ UNCHANGED store_vars
           ELSE /\ SetStore([Self EXCEPT !.documents[f.application] =
                                With(@, f.db_id, EmptyMap)])
                /\ SetFrame(t, "D74", f)

\* line 74, save_db_map lines 263-274: mkdir, then orjson.dumps(dict(...))
D74(t) ==
    /\ pc[t] = "D74"
    /\ LET f == frame[t]
           h1 == mkdir_app(Self, f.application)
       IN  IF f.application \notin DOMAIN h1.databases
           THEN SetStore(h1) /\ SetFrame(t, "KeyError", f)
           ELSE LET dbs == Range(h1.databases[f.application])
                IN  /\ SetStore(h1)
                    /\ SetFrame(t, "D268",
                            [f EXCEPT !.dumped = [id \in {db.id : db \in dbs} |->
                                                     CHOOSE db \in dbs : db.id = id]])

\* save_db_map line 268: (app_dir / "map.json").write_bytes(<the dumped map>)
D268(t) ==
    /\ pc[t] = "D268"
    /\ LET f == frame[t]
       IN  IF f.application \notin DOMAIN db_maps
           THEN SetFrame(t, "FileNotFoundError", f) /\ UNCHANGED store_vars
           ELSE /\ SetStore([Self EXCEPT !.db_maps[f.application] = File(f.dumped)])
                /\ SetFrame(t, "D75", f)

\* lines 75-77: self.save_document_map(application, db_id); return the Database
D75(t) ==
    /\ pc[t] = "D75"
    /\ LET f == frame[t]
           r == save_document_map(Self, f.application, f.db_id)
       IN  /\ SetStore(r.h)
           /\ SetFrame(t, IF r.exc = "none" THEN "returned" ELSE r.exc, f)

NextCreate ==
    \/ \E n \in Names : Setup(n)
    \/ \E t \in Threads, n \in Names : RequestCreateApplication(t, n)
    \/ \E t \in Threads, a \in ApplicationIds \ {Ghost}, p \in NewPaths :
          RequestCreateDatabase(t, a, p)
    \/ \E t \in Threads : A59(t)
    \/ \E t \in Threads : A62(t)
    \/ \E t \in Threads : A63(t)
    \/ \E t \in Threads : A64(t)
    \/ \E t \in Threads : D70(t)
    \/ \E t \in Threads : D73(t)
    \/ \E t \in Threads : D74(t)
    \/ \E t \in Threads : D268(t)
    \/ \E t \in Threads : D75(t)

SpecCreate == Init /\ [][NextCreate]_vars

\* ------------------------------------------------------------- concurrent reads
\* GET /{db_name}/{document_name} is a plain def as well: read_document runs on
\* a pool thread and can be switched between its two statements.
RequestRead(t, application, database, document_name) ==
    /\ pc[t] = "idle"
    /\ SetFrame(t, "L95", [op |-> "read_document",
                           application |-> application, database |-> database,
                           document_name |-> document_name,
                           document_id |-> "", val |-> None])
    /\ UNCHANGED store_vars

\* line 95: document_id = self.documents[application][database][document_name]
L95(t) ==
    /\ pc[t] = "L95"
    /\ LET f == frame[t]
       IN  IF \/ ~has_scope(Self, f.application, f.database)
              \/ f.document_name \notin DOMAIN documents[f.application][f.database]
           THEN SetFrame(t, "KeyError", f)
           ELSE SetFrame(t, "L97",
                    [f EXCEPT !.document_id =
                        documents[f.application][f.database][f.document_name]])
    /\ UNCHANGED store_vars

\* lines 97-99: return (...).read_text(encoding="utf-8")
L97(t) ==
    /\ pc[t] = "L97"
    /\ LET f == frame[t]
           file == <<f.application, f.database, f.document_id>>
       IN  IF file \notin DOMAIN files
           THEN SetFrame(t, "FileNotFoundError", f)
           ELSE SetFrame(t, "returned", [f EXCEPT !.val = read_text(files[file])])
    /\ UNCHANGED store_vars

\* Reads and updates of the documents of one database, statement by statement.
NextRead ==
    \/ \E n \in Names : Setup(n)
    \/ \E t \in Threads, a \in ApplicationIds \ {Ghost}, d \in DatabaseIds,
          n \in DocumentNames, c \in {<<"p">>, <<"q">>} : Request(t, a, d, n, c)
    \/ \E t \in Threads, a \in ApplicationIds \ {Ghost}, d \in DatabaseIds,
          n \in DocumentNames : RequestRead(t, a, d, n)
    \/ \E t \in Threads : L82(t)
    \/ \E t \in Threads : L83(t)
    \/ \E t \in Threads : L85(t)
    \/ \E t \in Threads : L283(t)
    \/ \E t \in Threads : L88(t)
    \/ \E t \in Threads : L90(t)
    \/ \E t \in Threads : L95(t)
    \/ \E t \in Threads : L97(t)

SpecRead == Init /\ [][NextRead]_vars

\* ------------------------------------------------------------- documents of two databases
\* One application, its root database and a second one, and their documents.
InUpdate == Within(1, 0, 2, MaxDocuments)

NextUpdate ==
    \/ \E n \in Names : CreateApplication(n) /\ InUpdate
    \/ \E a \in ApplicationIds \ {Ghost} : CreateDatabase(a, <<"/", "a">>) /\ InUpdate
    \/ \E a \in ApplicationIds \ {Ghost}, d \in DatabaseIds, n \in DocumentNames,
          c \in Contents : UpdateDocument(a, d, n, c) /\ InUpdate
    \/ \E a \in ApplicationIds \ {Ghost}, d \in DatabaseIds, n \in DocumentNames :
          DeleteDocument(a, d, n)

SpecUpdate == Init /\ [][NextUpdate]_vars

\* ------------------------------------------------------------- failing writes
\* The file system under <root> starts or stops refusing changes (remounted
\* read-only, permissions changed).  No call is running.
Remount(ro) ==
    /\ read_only # ro
    /\ SetStore([Self EXCEPT !.read_only = ro])
    /\ UNCHANGED <<last, pc, frame>>

\* The mutating calls of the facade on a file system that may refuse the write.
NextFault ==
    \/ \E ro \in BOOLEAN : Remount(ro)
    \/ \E n \in Names : CreateApplication(n) /\ Small
    \/ \E a \in ApplicationIds : CreateToken(a, TRUE) /\ Small
    \/ \E a \in ApplicationIds \ {Ghost} : CreateDatabase(a, DbUuid(1)) /\ Small
    \/ \E a \in ApplicationIds \ {Ghost}, d \in DatabaseIds :
          UpdateDocument(a, d, "x", <<"p">>) /\ Small
    \/ \E a \in ApplicationIds \ {Ghost}, d \in DatabaseIds : DeleteDatabase(a, d)
    \/ \E a \in ApplicationIds : DeleteApplication(a)
    \/ \E t \in TokenIds : DeleteToken(t)

SpecFault == Init /\ [][NextFault]_vars

\* ------------------------------------------------------------- properties
\* The in-memory index of a store.
Index(h) ==
    [applications |-> h.applications, tokens |-> h.tokens,
     databases |-> h.databases, documents |-> h.documents]

\* The index a fresh HippoDB() would load from the present data directory.
Reloaded == Index(load(HippoDB(Disk)))

\* C1: after any sequence of successfully returning mutating calls (SpecOk runs
\* only those), the in-memory index equals the index a fresh load of the
\* side-car files reconstructs.
C1_IndexEqualsReload == Index(Self) = Reloaded

\* C2: after any sequence of create_application and delete_application calls
\* alone, a fresh load reconstructs the same applications, the same tokens, the
\* same path-to-database map per application and the same document maps.
C2_ApplicationsRoundTrip ==
    /\ applications = Reloaded.applications
    /\ tokens = Reloaded.tokens
    /\ DOMAIN databases = DOMAIN Reloaded.databases
    /\ \A a \in DOMAIN databases : databases[a] = Reloaded.databases[a]
    /\ DOMAIN documents = DOMAIN Reloaded.documents
    /\ \A a \in DOMAIN documents : documents[a] = Reloaded.documents[a]

\* An application was deleted after another was created, and one is still there.
C2_Witness ==
    /\ last.op = "delete_application"
    /\ last.exc = "none"
    /\ drawn.app >= 2
    /\ applications # EmptyMap
    /\ \A a \in DOMAIN applications : DOMAIN databases[a] = {<<"/">>}

\* C3: update_document(a, d, n, c) that returned, followed at once by
\* read_document(a, d, n), makes the read return exactly c.
C3_WriteReadRoundTrip ==
    [][(/\ last.op = "update_document"
        /\ last.exc = "none"
        /\ last'.op = "read_document"
        /\ last'.args = SubSeq(last.args, 1, 3))
       => (last'.exc = "none" /\ last'.val = last.args[4])]_vars

\* C5: once two update_document calls for the same name of the same database
\* have both returned, one document id was drawn for the name, both calls wrote
\* under it, the document map in memory and on disk agree on the name, and no
\* content file of the database is left without a name.
C5_OneIdPerName ==
    (/\ \A t \in Threads : pc[t] = "returned"
     /\ frame[1].application = frame[2].application
     /\ frame[1].database = frame[2].database
     /\ frame[1].document_name = frame[2].document_name)
    => LET a == frame[1].application
           d == frame[1].database
           n == frame[1].document_name
       IN  /\ drawn.doc = 1
           /\ frame[1].document_id = frame[2].document_id
           /\ documents[a][d][n] = frame[1].document_id
           /\ document_maps[<<a, d>>].data = documents[a][d]
           /\ \A k \in DOMAIN files :
                 (k[1] = a /\ k[2] = d) => k[3] \in Range(documents[a][d])

\* C6: after delete_document(a, d, n) returned, n is no key of the document map
\* in memory nor in the persisted map, neither listing nor the exists check of
\* the database shows it, and read_document raises KeyError for it.
C6_DeletedNameUnindexed ==
    (last.op = "delete_document" /\ last.exc = "none")
    => LET a == last.args[1]
           d == last.args[2]
           n == last.args[3]
       IN  /\ n \notin DOMAIN documents[a][d]
           /\ n \notin DOMAIN document_maps[<<a, d>>].data
           /\ \A p \in DOMAIN databases[a] :
                 databases[a][p].id = d
                 => /\ n \notin list_documents(Self, a, p).val
                    /\ document_exists(Self, a, p, n).val = FALSE
           /\ read_document(Self, a, d, n).exc = "KeyError"

\* C7: delete_document(a, d, n) that returns, returns exactly the contents the
\* most recent update_document stored under the name (the content file as it
\* was immediately before the deletion).
C7_DeleteReturnsStored ==
    [][(last'.op = "delete_document" /\ last'.exc = "none")
       => LET a == last'.args[1]
              d == last'.args[2]
              n == last'.args[3]
          IN  last'.val = files[<<a, d, documents[a][d][n]>>]]_vars

\* The applications that were created and are no longer in the applications map.
DeletedApplications == {AppUuid(i) : i \in 1..drawn.app} \ DOMAIN applications

\* Nothing of application a is left in the index or under the data directory.
Gone(a) ==
    /\ a \notin DOMAIN applications
    /\ a \notin DOMAIN databases
    /\ a \notin DOMAIN documents
    /\ a \notin {x.id : x \in applications_json.data.applications}
    /\ a \notin DOMAIN db_maps
    /\ \A k \in DOMAIN document_maps : k[1] # a
    /\ \A k \in DOMAIN files : k[1] # a

\* Every lookup of application a, of a database or of a document of it raises KeyError.
LookupsFail(a) ==
    /\ delete_application(Self, a).exc = "KeyError"
    /\ \A p \in Paths : create_database(Self, a, p).exc = "KeyError"
    /\ \A d \in DatabaseIds \cup Paths :
          /\ delete_database(Self, a, d).exc = "KeyError"
          /\ \A n \in DocumentNames :
                /\ read_document(Self, a, d, n).exc = "KeyError"
                /\ delete_document(Self, a, d, n).exc = "KeyError"
                /\ update_document(Self, a, d, n, <<"p">>).exc = "KeyError"
    /\ \A p \in Prefixes, r \in BOOLEAN : list_databases(Self, a, p, r).exc = "KeyError"

\* C4: once delete_application(A) returned, A is in no map of the index and its
\* subtree is gone from the disk, for good, and every later lookup of A, of its
\* databases or of its documents raises KeyError; right after the call no token
\* of the tokens map or of the applications file names A, and the tokens A had
\* are unknown to delete_token from then on.
C4_DeleteApplicationCascades ==
    /\ [](\A a \in DeletedApplications : Gone(a) /\ LookupsFail(a))
    /\ []((last.op = "delete_application" /\ last.exc = "none")
          => /\ \A t \in DOMAIN tokens : tokens[t].application # last.args[1]
             /\ \A x \in applications_json.data.tokens : x.application # last.args[1])
    /\ [][(last'.op = "delete_application" /\ last'.exc = "none")
          => \A t \in DOMAIN tokens :
                tokens[t].application = last'.args[1]
                => /\ t \notin DOMAIN tokens'
                   /\ t \notin {x.id : x \in applications_json'.data.tokens}]_vars
    /\ [][\A i \in 1..drawn.token :
             TokenUuid(i) \notin DOMAIN tokens
             => /\ TokenUuid(i) \notin DOMAIN tokens'
                /\ delete_token(Self, TokenUuid(i)).exc = "KeyError"]_vars

\* The only application ever created had a token, a second database and a
\* document, and has just been deleted.
C4_Witness ==
    /\ last.op = "delete_application"
    /\ last.exc = "none"
    /\ drawn = [app |-> 1, token |-> 1, db |-> 2, doc |-> 1]
    /\ applications = EmptyMap
    /\ tokens = EmptyMap
    /\ files = EmptyMap

\* C8: delete_database called with the id of a database of the application (by
\* the facade's caller, or by DELETE /{db_name} with the id it resolved from the
\* path) returns, and afterwards the database is in neither map of the index,
\* its directory is gone, the persisted database map does not hold it and the
\* listing does not return its path.
C8_DeleteDatabaseById ==
    [][\A a \in DOMAIN databases : \A p \in DOMAIN databases[a] :
         LET id == databases[a][p].id
         IN  (\/ last' = [last' EXCEPT !.op = "delete_database", !.args = <<a, id>>]
              \/ /\ last'.op = "api_delete_database"
                 /\ last'.args[1] = a
                 /\ process_db_name(last'.args[2]) = p)
             => /\ last'.exc = "none"
                /\ id \notin {db.id : db \in Range(databases'[a])}
                /\ id \notin DOMAIN documents'[a]
                /\ <<a, id>> \notin DOMAIN document_maps'
                /\ id \notin DOMAIN db_maps'[a].data
                /\ p \notin list_databases(Self', a, <<"/">>, TRUE).val]_vars

\* C9: with databases at /a, /a/b and /a/b/c, the non-recursive listing of
\* prefix "/a" includes /a/b and excludes /a/b/c.
C9_DirectChildrenOfA ==
    (/\ last.op = "list_databases"
     /\ last.exc = "none"
     /\ last.args[2] = <<"/", "a">>
     /\ last.args[3] = FALSE
     /\ {<<"/", "a">>, <<"/", "a", "/", "b">>, <<"/", "a", "/", "b", "/", "c">>}
           \subseteq DOMAIN databases[last.args[1]])
    => /\ <<"/", "a", "/", "b">> \in last.val
       /\ <<"/", "a", "/", "b", "/", "c">> \notin last.val

\* C10: list_databases returns, with recursive=true, exactly the databases
\* whose path starts with the prefix (db_name as process_db_name normalises
\* it), and with recursive=false exactly those of them whose path has no "/"
\* after its first len(prefix) characters.
C10_ListDatabasesFilter ==
    (last.op = "list_databases" /\ last.exc = "none")
    => LET prefix == process_db_name(last.args[2])
           paths == {db.path : db \in Range(databases[last.args[1]])}
           HasPrefix(p) ==
               Len(p) >= Len(prefix) /\ \A i \in 1..Len(prefix) : p[i] = prefix[i]
           NoSlashAfter(p) == \A i \in (Len(prefix) + 1)..Len(p) : p[i] # "/"
       IN  last.val = {p \in paths : HasPrefix(p) /\ (last.args[3] \/ NoSlashAfter(p))}

\* The non-recursive listing of "/a/" over /a/b and /a/b/c returned /a/b alone.
C10_Witness ==
    /\ last.op = "list_databases"
    /\ last.exc = "none"
    /\ last.args[2] = <<"/", "a", "/">>
    /\ last.args[3] = FALSE
    /\ <<"/", "a", "/", "b", "/", "c">> \in DOMAIN databases[last.args[1]]
    /\ last.val = {<<"/", "a", "/", "b">>}

\* C11: right after create_application(name) returned, the database map of the
\* new application holds exactly one database, at path "/", whose document map
\* is empty in memory and on disk, and the listing of prefix "/" returns
\* exactly ["/"], recursive or not.
C11_FreshApplicationHasRoot ==
    (last.op = "create_application" /\ last.exc = "none")
    => LET a == last.val.id
       IN  /\ DOMAIN databases[a] = {<<"/">>}
           /\ databases[a][<<"/">>].path = <<"/">>
           /\ databases[a][<<"/">>].application = a
           /\ documents[a] = [d \in {databases[a][<<"/">>].id} |-> EmptyMap]
           /\ document_maps[<<a, databases[a][<<"/">>].id>>] = File(EmptyMap)
           /\ \A r \in BOOLEAN :
                 list_databases(Self, a, <<"/">>, r) = Return(Self, {<<"/">>})

\* A second application was just created while the first is still there.
C11_Witness ==
    /\ last.op = "create_application"
    /\ last.exc = "none"
    /\ last.val.id = AppUuid(2)
    /\ AppUuid(1) \in DOMAIN applications

\* C12: in every state, every application of the applications map has a
\* database at path "/" in its database map, and so has every application of
\* the index a fresh load would reconstruct from the files as they are: no
\* state between the statements of create_application shows an application
\* without its root database.
C12_RootDatabaseAlways ==
    /\ \A a \in DOMAIN applications :
          a \in DOMAIN databases /\ <<"/">> \in DOMAIN databases[a]
    /\ \A a \in DOMAIN Reloaded.applications :
          <<"/">> \in DOMAIN Reloaded.databases[a]

\* The call of this step looks up an application, a token, a document name or
\* a database that is not there.
LookupFails ==
    LET op == last'.op
        args == last'.args
    IN  \/ op \in {"delete_application", "create_database"}
           /\ args[1] \notin DOMAIN applications
        \/ op = "delete_token" /\ args[1] \notin DOMAIN tokens
        \/ op \in {"read_document", "delete_document"}
           /\ has_scope(Self, args[1], args[2])
           /\ args[3] \notin DOMAIN documents[args[1]][args[2]]
        \/ op = "delete_database"
           /\ args[1] \in DOMAIN databases
           /\ args[1] \in DOMAIN documents
           /\ ~(args[2] \in DOMAIN databases[args[1]] /\ args[2] \in DOMAIN documents[args[1]])

\* C13: a facade call that fails on such a lookup raises before any change: the
\* index and the files are what they were before the call.
C13_LookupFailureChangesNothing ==
    [][LookupFails
       => /\ last'.exc # "none"
          /\ Index(Self') = Index(Self)
          /\ <<applications_json, db_maps, document_maps, files>>'
                = <<applications_json, db_maps, document_maps, files>>]_vars

\* C14: a mutating call whose persistence step fails (the write of a side-car
\* file, the removal of a directory) reports the failure and leaves the
\* in-memory index as it was before the call.
C14_FailedWriteLeavesIndex ==
    [][(/\ last'.exc = "OSError"
        /\ last'.op \in {"create_token", "create_application", "create_database",
                         "update_document", "delete_token", "delete_database",
                         "delete_application"})
       => Index(Self') = Index(Self)]_vars

\* C15: once two concurrent create_database calls with different paths in the
\* same application have both returned, the persisted database map of the
\* application holds both databases and equals the in-memory database map.
C15_BothDatabasesPersisted ==
    (/\ \A t \in Threads : pc[t] = "returned" /\ frame[t].op = "create_database"
     /\ frame[1].application = frame[2].application
     /\ frame[1].path # frame[2].path)
    => LET a == frame[1].application
           dbs == Range(databases[a])
       IN  /\ {frame[1].db_id, frame[2].db_id} \subseteq DOMAIN db_maps[a].data
           /\ db_maps[a].data = [id \in {db.id : db \in dbs} |->
                                    CHOOSE db \in dbs : db.id = id]

\* C16: a read_document running concurrently with the update_document that
\* creates the same name either raises KeyError (the name is not indexed yet)
\* or returns the contents written; it never finds the name in the document
\* map while the content file is missing.
C16_ReadSeesNoHalfWrite ==
    \A t \in Threads, u \in Threads :
        (/\ pc[t] # "idle" /\ frame[t].op = "read_document"
         /\ pc[u] # "idle" /\ frame[u].op = "update_document"
         /\ frame[t].application = frame[u].application
         /\ frame[t].database = frame[u].database
         /\ frame[t].document_name = frame[u].document_name)
        => /\ pc[t] \in {"L95", "L97", "KeyError", "returned"}
           /\ pc[t] = "returned" => frame[t].val = frame[u].contents
           /\ pc[t] = "L97" =>
                 <<frame[t].application, frame[t].database, frame[t].document_id>>
                    \in DOMAIN files

\* C17: after completed calls the index keeps, per application, the document
\* scopes and the registered databases in one-to-one correspondence: the keys
\* of documents[app] are the ids of the Database values of databases[app], and
\* no database directory exists on disk for an id that is not registered.
C17_ScopesMatchDatabases ==
    \A a \in DOMAIN databases :
        LET ids == {db.id : db \in Range(databases[a])}
        IN  /\ a \in DOMAIN documents
            /\ DOMAIN documents[a] = ids
            /\ \A k \in DOMAIN document_maps : k[1] = a => k[2] \in ids

\* C18: update_document on a name that is already in the document map of the
\* database replaces the contents and nothing else: no id is drawn, the
\* document maps in memory and on disk and the rest of the index are
\* unchanged, the file of the name's id holds the new contents and every other
\* content file, of this and of every other database, is as it was.
C18_UpdateReplacesContents ==
    [][(/\ last'.op = "update_document"
        /\ has_scope(Self, last'.args[1], last'.args[2])
        /\ last'.args[3] \in DOMAIN documents[last'.args[1]][last'.args[2]])
       => LET a == last'.args[1]
              d == last'.args[2]
              id == documents[a][d][last'.args[3]]
          IN  /\ last'.exc = "none"
              /\ drawn' = drawn
              /\ documents' = documents
              /\ document_maps' = document_maps
              /\ <<applications, tokens, databases, applications_json, db_maps>>'
                    = <<applications, tokens, databases, applications_json, db_maps>>
              /\ DOMAIN files' = DOMAIN files \cup {<<a, d, id>>}
              /\ files'[<<a, d, id>>] = write_text(last'.args[4])
              /\ \A k \in DOMAIN files : k # <<a, d, id>> => files'[k] = files[k]]_vars

\* The first document was written again after a document of the other database
\* had been created, and both content files are there.
C18_Witness ==
    /\ last.op = "update_document"
    /\ last.exc = "none"
    /\ drawn.doc = 2
    /\ has_scope(Self, last.args[1], last.args[2])
    /\ last.args[3] \in DOMAIN documents[last.args[1]][last.args[2]]
    /\ documents[last.args[1]][last.args[2]][last.args[3]] = DocUuid(1)
    /\ \E k \in DOMAIN files : k[2] # last.args[2] /\ k[3] = DocUuid(2)
    /\ <<last.args[1], last.args[2], DocUuid(1)>> \in DOMAIN files

\* The part of map f whose keys satisfy Keep.
Others(f, Keep(_)) == [k \in {x \in DOMAIN f : Keep(x)} |-> f[k]]

\* C19: delete_application(A) changes nothing of another application: the
\* entries of every other application in the applications map, the database
\* maps and the document maps, every token whose application is not A, and
\* on disk the other applications and tokens of the applications file, the
\* other application directories, their map files and their content files,
\* are as they were before the call.
C19_DeleteApplicationFrame ==
    [][last'.op = "delete_application"
       => LET A == last'.args[1]
              NotA(x) == x # A
              NotOfA(k) == k[1] # A
              NotTokenOfA(t) == tokens[t].application # A
          IN  /\ Others(applications', NotA) = Others(applications, NotA)
              /\ Others(databases', NotA) = Others(databases, NotA)
              /\ Others(documents', NotA) = Others(documents, NotA)
              /\ Others(tokens, NotTokenOfA) = Others(tokens', NotTokenOfA)
              /\ DOMAIN tokens' \subseteq DOMAIN tokens
              /\ {x \in applications_json'.data.applications : x.id # A}
                    = {x \in applications_json.data.applications : x.id # A}
              /\ {x \in applications_json'.data.tokens : x.application # A}
                    = {x \in applications_json.data.tokens : x.application # A}
              /\ Others(db_maps', NotA) = Others(db_maps, NotA)
              /\ Others(document_maps', NotOfA) = Others(document_maps, NotOfA)
              /\ Others(files', NotOfA) = Others(files, NotOfA)]_vars

\* An application was just deleted while another one has a token, a second
\* database and a document.
C19_Witness ==
    /\ last.op = "delete_application"
    /\ last.exc = "none"
    /\ \E b \in DOMAIN applications :
          /\ b # last.args[1]
          /\ \E t \in DOMAIN tokens : tokens[t].application = b
          /\ <<"/", "a">> \in DOMAIN databases[b]
          /\ \E k \in DOMAIN files : k[1] = b

====
